---- MODULE Spec2Model ----
(***************************************************************************)
(* Model of the MWAAI messaging-bot backend: the durable task scheduler    *)
(* (src/schedule_tasks.py) and the function-calling dialogue loop          *)
(* (src/prompt_ai.py).                                                     *)
(*                                                                         *)
(* Spec          the scheduler thread racing with the Tool Dispatcher's    *)
(*               add_task_* calls on tasks.json                            *)
(* SpecDialogue  prompt_openai_response handling inbound messages          *)
(***************************************************************************)
EXTENDS Bags, FiniteSets, Integers, Naturals, Sequences, TLC

VARIABLES
    \* ---- shared by both specifications ----
    tasks_file,     \* parsed content of tasks.json as get_tasks() would return it
    overlaid,       \* writers whose open("w") handle now sits on bytes dumped by the other writer
    \* ---- scheduler thread (start_scheduler.check_tasks) ----
    s_pc,           \* position of the thread
    oldest_task,    \* local oldest_task
    s_tasks,        \* local tasks (lines 205-206)
    now,            \* wall clock (UTC)
    whatsapp_token, \* os.environ.get("WHATSAPP_TOKEN") is set
    sent,           \* outbound sends attempted by the scheduler, in order
    send_outcome,   \* outcome of the send of the current cycle
    \* ---- Tool Dispatcher running add_task_* in the event-loop thread ----
    a_pc,           \* position inside add_task_*
    a_tasks,        \* local tasks (lines 85-86 / 128-129)
    n_adds,         \* add_task_* calls started
    \* ---- history of the run (observers, never read by the code) ----
    requested,      \* bag of tasks built by add_task_* calls that reached get_tasks()
    appended,       \* bag of tasks whose add_task_* call has returned
    removed,        \* bag of tasks whose removal the scheduler has written
    poll_snap,      \* store content read by the poll of the current cycle
    poll_now,       \* clock at the poll of the current cycle
    cycle_due,      \* the current cycle found its oldest task due
    cycle_handled,  \* tasks that went through DELIVER in the current cycle
    s_read,         \* list re-read by REMOVE in the current cycle
    s_written,      \* list written by REMOVE in the current cycle
    init_file,      \* content of tasks.json when the process started
    \* ---- Dialogue Orchestrator (prompt_openai_response) for one inbound message ----
    o_pc,           \* position inside prompt_openai_response
    user_input_obj, \* the inbound message
    convo_file,     \* the persisted conversation record of the key
    history,        \* local history
    iter,           \* iterations of the for loop started
    function_calls, \* tool calls of the current response not yet executed
    ai_text,        \* local ai_text
    reply,          \* value returned to the caller
    user_timezones, \* user_timezones/<number>.json per user
    \* ---- history of the handling (observers) ----
    n_req,          \* completion requests issued
    n_tools,        \* tool calls executed
    n_writes,       \* writes of the conversation record
    last_output,    \* response.output of the latest completion
    cap_hit,        \* the for loop ran out of iterations
    sent_history,   \* input=history of the latest completion request
    loaded_file,    \* the conversation record as the handler found it
    \* ---- the tools called one at a time (SpecZones, SpecExact) ----
    z_log,          \* set/get calls made on the timezone store, in order
    z_result,       \* what the latest get_user_timezone call gave
    x_args,         \* arguments of the add_task_exact_time call
    x_result,       \* what the add_task_exact_time call gave
    \* ---- the server process: webhook handlers and scheduler threads ----
    w_pc,            \* position of each webhook delivery's handler
    w_msg,           \* the message each delivery carries
    w_hist,          \* local history of each handler
    w_last,          \* the delivery whose handler took the latest step
    processed_files, \* temp_message_ids/<sender>.json per file name
    convo_files,     \* temp_conversations/<sender>.json per file name
    w_sent,          \* replies posted to the channel
    t_pc,            \* position of each scheduler thread started
    t_task           \* oldest_task of each scheduler thread

schedVars == <<tasks_file, overlaid, s_pc, oldest_task, s_tasks, now, whatsapp_token,
               sent, send_outcome, a_pc, a_tasks, n_adds, requested, appended, removed,
               poll_snap, poll_now, cycle_due, cycle_handled, s_read, s_written, init_file>>

dialogueVars == <<o_pc, user_input_obj, convo_file, history, iter, function_calls, ai_text,
                  reply, user_timezones, n_req, n_tools, n_writes, last_output, cap_hit,
                  sent_history, loaded_file>>

toolVars == <<z_log, z_result, x_args, x_result>>

serverVars == <<w_pc, w_msg, w_hist, w_last, processed_files, convo_files, w_sent,
                t_pc, t_task>>

vars == <<schedVars, dialogueVars, toolVars, serverVars>>

----------------------------------------------------------------------------
(* Bounds *)
MaxNow  == 2     \* the clock ticks up to this value
MaxAdds == 1     \* add_task_* calls per run

(* Program constants *)
MinTime == -1000           \* datetime.datetime.min, below every representable task time
OffsetLow == -11
OffsetHigh == 14

None == [none |-> TRUE]

----------------------------------------------------------------------------
(* Time strings.  An ISO string is modelled by what fromisoformat makes of *)
(* it: unparsable, naive local time t, or local time t with UTC offset.    *)
BadTime        == [fmt |-> "bad",   t |-> 0, off |-> 0]
Naive(t)       == [fmt |-> "naive", t |-> t, off |-> 0]
Aware(t, off)  == [fmt |-> "aware", t |-> t, off |-> off]

\* dt.replace(tzinfo=utc) for a naive value, dt.astimezone(utc) otherwise
ToUTC(ts) == IF ts.fmt = "naive" THEN ts.t ELSE ts.t - ts.off

\* dt.isoformat() of a UTC-aware datetime: "...+00:00"
IsoformatUTC(u) == Aware(u, 0)

parse_time(task) ==
    IF task.time.fmt = "bad" THEN MinTime ELSE ToUTC(task.time)

Task(message, time, to, pid) ==
    [message |-> message, time |-> time, to |-> to, phone_number_id |-> pid]

Err(text) == [error |-> text]
IsErr(r) == "error" \in DOMAIN r

\* An offset argument: the first three characters and what follows them.
\* rem is "" (nothing), "junk" (not an integer literal) or an integer literal
\* with value h, with or without a sign character.
Offset(prefix, rem, h) == [prefix |-> prefix, rem |-> rem, h |-> h]

\* line 61: offset.upper().startswith("UTC")
HasUtcPrefix_CaseSensitive(offset) == offset.prefix = "UTC"
HasUtcPrefix(offset) == offset.prefix \in {"UTC", "utc", "Utc"}

\* line 67: -11 <= hours_offset <= 14
InRange_Exclusive(hours_offset) == OffsetLow < hours_offset /\ hours_offset < OffsetHigh
InRange(hours_offset) == OffsetLow <= hours_offset /\ hours_offset <= OffsetHigh

\* line 72: dt - timedelta(hours=hours_offset)
ApplyOffset_Add(utc, hours_offset) == utc + hours_offset
ApplyOffset(utc, hours_offset) == utc - hours_offset

add_task_exact_time(message, time_str, to, pid, offset) ==
    IF time_str.fmt = "bad" THEN Err("Invalid datetime format")
    ELSE IF ~HasUtcPrefix(offset) THEN Err("Offset must start with 'UTC'.")
    ELSE IF offset.rem = "junk" THEN Err("invalid literal for int()")
    ELSE LET hours_offset == IF offset.rem = "" THEN 0 ELSE offset.h IN
         IF ~InRange(hours_offset)
         THEN Err("UTC offset must be between -11 and +14 hours (inclusive).")
         ELSE Task(message, IsoformatUTC(ApplyOffset(ToUTC(time_str), hours_offset)), to, pid)

add_task_relative_time_Unchecked(message, time_str, to, pid) ==
    Task(message, IF time_str.fmt = "bad" THEN time_str ELSE IsoformatUTC(ToUTC(time_str)), to, pid)
add_task_relative_time(message, time_str, to, pid) ==
    IF time_str.fmt = "bad" THEN Err("Invalid datetime format")
    ELSE Task(message, IsoformatUTC(ToUTC(time_str)), to, pid)

----------------------------------------------------------------------------
(* The task store *)

\* get_tasks(): the parsed list; a truncated or garbled file reads as []
get_tasks == tasks_file

\* Python's min(tasks, key=parse_time) for tasks[i..]: the first minimal element
RECURSIVE MinFrom(_, _, _)
MinFrom(tasks, i, best) ==
    IF i > Len(tasks) THEN best
    ELSE MinFrom(tasks, i + 1,
                 IF parse_time(tasks[i]) < parse_time(best) THEN tasks[i] ELSE best)

PyMin_First(tasks) == tasks[1]
PyMin(tasks) == MinFrom(tasks, 2, tasks[1])

OldestOf(tasks) == IF tasks = << >> THEN None ELSE PyMin(tasks)
get_oldest_task == OldestOf(get_tasks)

Contains(s, x) == \E i \in DOMAIN s : s[i] = x

\* list.remove(x): drops the first element equal to x
ListRemove_All(s, x) == SelectSeq(s, LAMBDA e : e # x)
ListRemove(s, x) ==
    LET i == CHOOSE k \in DOMAIN s : s[k] = x /\ \A j \in 1..(k - 1) : s[j] # x
    IN  SubSeq(s, 1, i - 1) \o SubSeq(s, i + 1, Len(s))

BagOfSeq(s) ==
    LET elems == {s[i] : i \in DOMAIN s}
    IN  [x \in elems |-> Cardinality({i \in DOMAIN s : s[i] = x})]

\* open(TASKS_FILE, "w") by writer w: the file is truncated; a handle the other
\* writer holds open now points at an empty file again.
OpenForWrite(w) ==
    /\ tasks_file' = << >>
    /\ overlaid' = {}

\* json.dump + close by writer w with the other writer other_open (TRUE when
\* the other writer holds the file open).  The handle writes from offset 0
\* without truncating: over a longer content dumped meanwhile by the other
\* writer the result is garbled JSON, which reads as [].
DumpAndClose(w, content, other, other_open) ==
    /\ tasks_file' = IF w \in overlaid /\ Len(tasks_file) > Len(content)
                     THEN << >> ELSE content
    /\ overlaid' = IF other_open /\ content # << >> THEN {other} ELSE {}

----------------------------------------------------------------------------
(* Inputs *)
TimeStrs == {Naive(0), Naive(2), Aware(3, 3), BadTime}
Offsets  == {Offset("UTC", "+int", 2), Offset("UTC", "", 0), Offset("UTC", "+int", 15)}
Recipients == {"u"}

\* tasks.json as an earlier run or an operator may have left it
InitFiles ==
    { << >>,
      << Task("a", Aware(0, 0), "u", "p") >>,
      << Task("a", Aware(0, 0), "u", "p"), Task("b", Aware(0, 0), "u", "p") >>,
      << Task("a", Naive(1), "u", "p"), Task("b", Aware(3, 3), "", "p") >>,
      << Task("a", Aware(5, 0), "u", "p"), Task("b", BadTime, "u", "p") >>,
      << Task("a", Aware(5, 0), "u", "p") >> }

SchedStart ==
    /\ tasks_file \in InitFiles
    /\ init_file = tasks_file
    /\ overlaid = {}
    /\ s_pc = "poll"
    /\ oldest_task = None
    /\ s_tasks = << >>
    /\ now = 0
    /\ whatsapp_token \in BOOLEAN
    /\ sent = << >>
    /\ send_outcome = "none"
    /\ a_pc = "idle"
    /\ a_tasks = << >>
    /\ n_adds = 0
    /\ requested = EmptyBag
    /\ appended = EmptyBag
    /\ removed = EmptyBag
    /\ poll_snap = << >>
    /\ poll_now = 0
    /\ cycle_due = FALSE
    /\ cycle_handled = << >>
    /\ s_read = << >>
    /\ s_written = << >>

----------------------------------------------------------------------------
(* Scheduler thread: start_scheduler.check_tasks *)

dispatcherLocals == <<a_pc, a_tasks, n_adds, requested, appended>>
dispatcherVars == <<dispatcherLocals, dialogueVars, toolVars, serverVars>>
schedulerLocals == <<s_pc, oldest_task, s_tasks, sent, send_outcome, removed, poll_snap,
                     poll_now, cycle_due, cycle_handled, s_read, s_written>>

\* line 176: oldest_task = get_oldest_task(); line 178: if oldest_task
Poll ==
    /\ s_pc = "poll"
    /\ oldest_task' = get_oldest_task
    /\ poll_snap' = get_tasks
    /\ poll_now' = now
    /\ cycle_due' = FALSE
    /\ cycle_handled' = << >>
    /\ send_outcome' = "none"
    /\ s_read' = << >>
    /\ s_written' = << >>
    /\ s_pc' = IF get_oldest_task = None THEN "sleep" ELSE "check"
    /\ UNCHANGED <<tasks_file, overlaid, s_tasks, now, whatsapp_token, sent, removed,
                   init_file, dispatcherVars>>

\* line 184: task_time <= now_utc
IsDue_Always(task, now_utc) == TRUE
IsDue(task, now_utc) == parse_time(task) <= now_utc

\* lines 179-184
CheckDue ==
    /\ s_pc = "check"
    /\ cycle_due' = IsDue(oldest_task, now)
    /\ s_pc' = IF IsDue(oldest_task, now) THEN "deliver" ELSE "sleep"
    /\ UNCHANGED <<tasks_file, overlaid, oldest_task, s_tasks, now, whatsapp_token, sent,
                   send_outcome, removed, poll_snap, poll_now, cycle_handled, s_read,
                   s_written, init_file, dispatcherVars>>

\* the outcomes of client.post(...) followed by response.json():
\* a 2xx answer, an error answer with a JSON body, or an exception
SendOutcomes == {"ok", "http_error", "raised"}

\* lines 189-201: nothing catches an exception of the send, it ends the thread
Deliver ==
    /\ s_pc = "deliver"
    /\ cycle_handled' = Append(cycle_handled, oldest_task)
    /\ IF whatsapp_token /\ oldest_task.phone_number_id # "" /\ oldest_task.to # ""
       THEN /\ \E o \in SendOutcomes :
                 /\ send_outcome' = o
                 /\ s_pc' = IF o = "raised" THEN "dead" ELSE "remove_read"
            /\ sent' = Append(sent, oldest_task)
       ELSE /\ send_outcome' = "skipped"
            /\ s_pc' = "remove_read"
            /\ sent' = sent
    /\ UNCHANGED <<tasks_file, overlaid, oldest_task, s_tasks, now, whatsapp_token, removed,
                   poll_snap, poll_now, cycle_due, s_read, s_written, init_file,
                   dispatcherVars>>

\* lines 205-206: tasks = get_tasks(); tasks.remove(oldest_task)
\* list.remove raises ValueError when the task is not in the list just read
RemoveRead ==
    /\ s_pc = "remove_read"
    /\ s_read' = get_tasks
    /\ IF Contains(get_tasks, oldest_task)
       THEN /\ s_tasks' = ListRemove(get_tasks, oldest_task)
            /\ s_pc' = "remove_open"
       ELSE /\ s_tasks' = get_tasks
            /\ s_pc' = "dead"
    /\ UNCHANGED <<tasks_file, overlaid, oldest_task, now, whatsapp_token, sent, send_outcome,
                   removed, poll_snap, poll_now, cycle_due, cycle_handled, s_written,
                   init_file, dispatcherVars>>

\* line 207: open(TASKS_FILE, 'w')
RemoveOpen ==
    /\ s_pc = "remove_open"
    /\ OpenForWrite("S")
    /\ s_pc' = "remove_dump"
    /\ UNCHANGED <<oldest_task, s_tasks, now, whatsapp_token, sent, send_outcome, removed,
                   poll_snap, poll_now, cycle_due, cycle_handled, s_read, s_written,
                   init_file, dispatcherVars>>

\* line 208: json.dump(tasks, f) and the close of the with block
RemoveDump ==
    /\ s_pc = "remove_dump"
    /\ DumpAndClose("S", s_tasks, "A", a_pc = "dump")
    /\ s_written' = s_tasks
    /\ removed' = removed (+) SetToBag({oldest_task})
    /\ s_pc' = "sleep"
    /\ UNCHANGED <<oldest_task, s_tasks, now, whatsapp_token, sent, send_outcome,
                   poll_snap, poll_now, cycle_due, cycle_handled, s_read,
                   init_file, dispatcherVars>>

\* line 209: time.sleep(10), then the next iteration of while True
Sleep ==
    /\ s_pc = "sleep"
    /\ s_pc' = "poll"
    /\ UNCHANGED <<tasks_file, overlaid, oldest_task, s_tasks, now, whatsapp_token, sent,
                   send_outcome, removed, poll_snap, poll_now, cycle_due, cycle_handled,
                   s_read, s_written, init_file, dispatcherVars>>

\* the wall clock advances
Tick ==
    /\ now < MaxNow
    /\ now' = now + 1
    /\ UNCHANGED <<tasks_file, overlaid, whatsapp_token, init_file, schedulerLocals,
                   dispatcherVars>>

----------------------------------------------------------------------------
(* Tool Dispatcher: add_task_exact_time / add_task_relative_time, called    *)
(* synchronously from the event loop, so one call at a time.                *)

\* the call up to and including tasks = get_tasks(); tasks.append(task);
\* a validation error raises before the store is touched
AddBegin(result) ==
    /\ a_pc = "idle"
    /\ n_adds < MaxAdds
    /\ n_adds' = n_adds + 1
    /\ IF IsErr(result)
       THEN UNCHANGED <<a_pc, a_tasks, requested>>
       ELSE /\ a_tasks' = Append(get_tasks, result)
            /\ requested' = requested (+) SetToBag({result})
            /\ a_pc' = "open"
    /\ UNCHANGED <<tasks_file, overlaid, now, whatsapp_token, appended, init_file,
                   schedulerLocals, dialogueVars, toolVars, serverVars>>

\* lines 38-86
AddExactBegin ==
    \E m \in {"a"}, ts \in TimeStrs, to \in Recipients, off \in Offsets :
        AddBegin(add_task_exact_time(m, ts, to, "p", off))

\* lines 93-129
AddRelativeBegin ==
    \E m \in {"a"}, ts \in TimeStrs, to \in Recipients :
        AddBegin(add_task_relative_time(m, ts, to, "p"))

\* lines 88 / 131: open(TASKS_FILE, "w")
AddOpen ==
    /\ a_pc = "open"
    /\ OpenForWrite("A")
    /\ a_pc' = "dump"
    /\ UNCHANGED <<a_tasks, n_adds, requested, appended, now, whatsapp_token, init_file,
                   schedulerLocals, dialogueVars, toolVars, serverVars>>

\* lines 89 / 132: json.dump(tasks, f, indent=2), close, return task
AddDump ==
    /\ a_pc = "dump"
    /\ DumpAndClose("A", a_tasks, "S", s_pc = "remove_dump")
    /\ appended' = appended (+) SetToBag({a_tasks[Len(a_tasks)]})
    /\ a_pc' = "idle"
    /\ UNCHANGED <<a_tasks, n_adds, requested, now, whatsapp_token, init_file,
                   schedulerLocals, dialogueVars, toolVars, serverVars>>

----------------------------------------------------------------------------
(* Dialogue Orchestrator: data *)

max_tool_iterations == 5

\* line 221: range(max_tool_iterations) has a further iteration after i of them
LoopGoesOn_OffByOne(i) == i <= max_tool_iterations
LoopGoesOn(i) == i < max_tool_iterations

max_size == 30         \* 1_572_864 bytes, in units of one ordinary turn
HugeTurn == 20         \* size of a turn that carries a huge file summary, same units

Whitespace == {" "}
Lower(c) == IF c = "F" THEN "f" ELSE IF c = "T" THEN "t" ELSE c
LowerStr(str) == [i \in DOMAIN str |-> Lower(str[i])]

\* str.strip()
Strip(str) ==
    LET keep == {i \in DOMAIN str : str[i] \notin Whitespace} IN
    IF keep = {} THEN << >>
    ELSE SubSeq(str, CHOOSE i \in keep : \A k \in keep : i <= k,
                     CHOOSE i \in keep : \A k \in keep : i >= k)

\* "".join(chunks)
RECURSIVE Join(_)
Join(chunks) == IF chunks = << >> THEN << >> ELSE Head(chunks) \o Join(Tail(chunks))

ForgetWord   == <<"f", "o", "r", "g", "e", "t">>
ResetText    == <<"R", "e", "s", "e", "t">>      \* "Conversation history has been reset."
FallbackText == <<"S", "o", "r", "r", "y">>      \* "Sorry, I didn't get a response from the assistant."

\* line 58
IsResetCommand_Exact(obj) == obj.text = ForgetWord
IsResetCommand(obj) == LowerStr(Strip(obj.text)) = ForgetWord

SystemTurn == [role |-> "system", content |-> "system_message"]
UserTurn(obj) == [role |-> "user", content |-> obj]
AssistantTurn(text) == [role |-> "assistant", content |-> text]
CallTurn(call) ==
    [type |-> "function_call", id |-> call.id, call_id |-> call.call_id,
     name |-> call.name, arguments |-> call.arguments]
OutputTurn(call, output) ==
    [type |-> "function_call_output", call_id |-> call.call_id, output |-> output]

\* lines 263-276: the two turns appended for an executed tool call
ToolTurns_ResultOnly(call, output) == << OutputTurn(call, output) >>
ToolTurns_ResultFirst(call, output) == << OutputTurn(call, output), CallTurn(call) >>
ToolTurns(call, output) == << CallTurn(call), OutputTurn(call, output) >>

\* turn.get("role")
RoleOf(turn) == IF "role" \in DOMAIN turn THEN turn.role ELSE "none"

\* the conversation record on disk
NoFile == [exists |-> FALSE]
Weight(turn) ==
    IF RoleOf(turn) = "user" /\ turn.content.file_content_summary = "huge" THEN HugeTurn ELSE 1
RECURSIVE SizeOf(_)
SizeOf(turns) == IF turns = << >> THEN 0 ELSE Weight(Head(turns)) + SizeOf(Tail(turns))
Written(turns) == [exists |-> TRUE, parses |-> TRUE, turns |-> turns, size |-> SizeOf(turns)]
Corrupt(size) == [exists |-> TRUE, parses |-> FALSE, turns |-> << >>, size |-> size]

\* lines 65-73
LoadHistory_AsStored(file) == IF file.exists /\ file.parses THEN file.turns ELSE << >>
LoadHistory(file) ==
    LET loaded == IF file.exists /\ file.parses THEN file.turns ELSE << >> IN
    IF loaded = << >> \/ RoleOf(loaded[1]) # "system" THEN << SystemTurn >> \o loaded ELSE loaded

\* line 84: the stored record is rewritten before the model is asked only
\* when it is larger than max_size
NeedsTrim_Always(file) == file.exists
NeedsTrim(file) == file.exists /\ file.size > max_size

\* lines 85-86: the loop re-reads the size of the file, which it has not rewritten yet
RECURSIVE TrimLoop(_, _)
TrimLoop(hist, file_size) ==
    IF Len(hist) > 1 /\ file_size > max_size
    THEN TrimLoop(<< hist[1] >> \o SubSeq(hist, 3, Len(hist)), file_size)
    ELSE hist

\* lines 235-247: function calls and text chunks of response.output, in order
RECURSIVE PartCalls(_)
PartCalls(parts) ==
    IF parts = << >> THEN << >>
    ELSE (IF Head(parts).type = "function_call" THEN << Head(parts) >> ELSE << >>)
             \o PartCalls(Tail(parts))
RECURSIVE PartTexts(_)
PartTexts(parts) ==
    IF parts = << >> THEN << >>
    ELSE (IF Head(parts).type \in {"text", "output_text"} THEN << Head(parts).text >> ELSE << >>)
             \o PartTexts(Tail(parts))
RECURSIVE CollectCalls(_)
CollectCalls(output) ==
    IF output = << >> THEN << >>
    ELSE (IF Head(output).type = "function_call" THEN << Head(output) >>
          ELSE IF Head(output).type = "message" THEN PartCalls(Head(output).content)
          ELSE << >>) \o CollectCalls(Tail(output))
RECURSIVE CollectText(_)
CollectText(output) ==
    IF output = << >> THEN << >>
    ELSE (IF Head(output).type = "message" THEN PartTexts(Head(output).content) ELSE << >>)
             \o CollectText(Tail(output))

\* line 250: if function_calls -- the tool branch is tried before the text
TakesTools_TextFirst(calls, text_chunks) == calls # << >> /\ text_chunks = << >>
TakesTools(calls, text_chunks) == calls # << >>

\* lines 282-287: the reply when a response holds no tool call
FinalText_NoFallback(text_chunks) ==
    IF text_chunks # << >> THEN Strip(Join(text_chunks)) ELSE << >>
FinalText_NoStrip(text_chunks) ==
    IF text_chunks # << >> THEN Join(text_chunks) ELSE FallbackText
FinalText(text_chunks) ==
    IF text_chunks # << >> THEN Strip(Join(text_chunks)) ELSE FallbackText

----------------------------------------------------------------------------
(* Tool Dispatcher: _dispatch_tool and the tools *)

StrResult(text) == [kind |-> "str", text |-> text]
ObjResult(value) == [kind |-> "obj", value |-> value]
ErrorExecuting_Silent(name) == StrResult(<< >>)
ErrorExecuting(name) == StrResult(<<"Error executing", name>>)

\* lines 254-257: json.loads(call.arguments), {} when that fails
ParsedArgs(call) == IF call.arguments.json_ok THEN call.arguments.kw ELSE << >>

\* fn(**args) binds: every required parameter given, nothing unknown
Binds(kw, required, optional) ==
    /\ required \subseteq DOMAIN kw
    /\ DOMAIN kw \subseteq required \cup optional

DefaultOffset == Offset("UTC", "+int", 0)

\* handle_timezones.py: user_timezones/<to_number>.json holds {"timezone": ...};
\* zones maps each number that has a file to the timezone stored in it
set_user_timezone_SharedFile(zones, to_number, timezone) ==
    [k \in DOMAIN zones \cup {to_number} |-> timezone]
set_user_timezone(zones, to_number, timezone) ==
    [k \in DOMAIN zones \cup {to_number} |-> IF k = to_number THEN timezone ELSE zones[k]]

\* open(file_path, "r") raises FileNotFoundError when the number has no file
get_user_timezone(zones, to_number) ==
    IF to_number \notin DOMAIN zones THEN Err("FileNotFoundError")
    ELSE [timezone |-> zones[to_number]]

\* lines 197-216 with the tool bodies: the result handed back to the loop and
\* the stores as the tool leaves them; pine is what the similarity store answers
DispatchTool(name, kw, tasks, zones, pine) ==
    LET same(result) == [result |-> result, tasks |-> tasks, zones |-> zones] IN
    IF name = "add_task_exact_time" THEN
        IF ~Binds(kw, {"message", "time_str", "to", "phone_number_id"}, {"offset"})
        THEN same(ErrorExecuting(name))
        ELSE LET r == add_task_exact_time(kw.message, kw.time_str, kw.to, kw.phone_number_id,
                          IF "offset" \in DOMAIN kw THEN kw.offset ELSE DefaultOffset) IN
             IF IsErr(r) THEN same(ErrorExecuting(name))
             ELSE [result |-> ObjResult(r), tasks |-> Append(tasks, r), zones |-> zones]
    ELSE IF name = "add_task_relative_time" THEN
        IF ~Binds(kw, {"message", "time_str", "to", "phone_number_id"}, {})
        THEN same(ErrorExecuting(name))
        ELSE LET r == add_task_relative_time(kw.message, kw.time_str, kw.to, kw.phone_number_id) IN
             IF IsErr(r) THEN same(ErrorExecuting(name))
             ELSE [result |-> ObjResult(r), tasks |-> Append(tasks, r), zones |-> zones]
    ELSE IF name = "get_user_timezone" THEN
        IF ~Binds(kw, {"to_number"}, {}) THEN same(ErrorExecuting(name))
        ELSE LET r == get_user_timezone(zones, kw.to_number) IN
             IF IsErr(r) THEN same(ErrorExecuting(name)) ELSE same(StrResult(r.timezone))
    ELSE IF name = "set_user_timezone" THEN
        IF ~Binds(kw, {"to_number", "timezone"}, {}) THEN same(ErrorExecuting(name))
        ELSE [result |-> ObjResult("null"), tasks |-> tasks,
              zones |-> set_user_timezone(zones, kw.to_number, kw.timezone)]
    ELSE IF name = "use_pinecone" THEN
        IF ~Binds(kw, {"input_obj", "to"}, {}) THEN same(ErrorExecuting(name))
        ELSE same(ObjResult(pine))
    ELSE same(StrResult(<<"Error: Unknown tool", name>>))

\* line 275: strings go as they are, everything else through json.dumps
ToolOutput(result) ==
    IF result.kind = "str" THEN result.text ELSE [json |-> result.value]

----------------------------------------------------------------------------
(* Dialogue Orchestrator: inputs *)

Args(kw) == [json_ok |-> TRUE, kw |-> kw]
BadJson  == [json_ok |-> FALSE, kw |-> << >>]
FunctionCall(call_id, name, arguments) ==
    [type |-> "function_call", id |-> call_id, call_id |-> call_id,
     name |-> name, arguments |-> arguments]
TextPart(text) == [type |-> "output_text", text |-> text]
Message(parts) == [type |-> "message", content |-> parts]

CallRelative ==
    FunctionCall("k1", "add_task_relative_time",
        Args([message |-> "a", time_str |-> Aware(3, 3), to |-> "u", phone_number_id |-> "p"]))
CallExact ==
    FunctionCall("k2", "add_task_exact_time",
        Args([message |-> "a", time_str |-> Naive(2), to |-> "u", phone_number_id |-> "p",
              offset |-> Offset("UTC", "+int", 2)]))
CallExactBadOffset ==
    FunctionCall("k3", "add_task_exact_time",
        Args([message |-> "a", time_str |-> Naive(2), to |-> "u", phone_number_id |-> "p",
              offset |-> Offset("UTC", "+int", 15)]))
CallRelativeBadTime ==
    FunctionCall("k9", "add_task_relative_time",
        Args([message |-> "a", time_str |-> BadTime, to |-> "u", phone_number_id |-> "p"]))
CallGetZone == FunctionCall("k4", "get_user_timezone", Args([to_number |-> "u"]))
CallSetZone ==
    FunctionCall("k5", "set_user_timezone", Args([to_number |-> "u", timezone |-> Offset("UTC", "+int", 2)]))
CallUnknown == FunctionCall("k6", "send_email", Args([to |-> "u"]))
CallBadJson == FunctionCall("k7", "add_task_relative_time", BadJson)
CallPinecone ==
    FunctionCall("k8", "use_pinecone", Args([input_obj |-> "record", to |-> "u"]))

\* what a completion may return as response.output
Outputs ==
    { << >>,
      << [type |-> "reasoning"] >>,
      << Message(<< [type |-> "refusal"] >>) >>,
      << Message(<< TextPart(<<"h", "i">>) >>) >>,
      << Message(<< TextPart(<<" ", "h">>), TextPart(<<"i", " ">>) >>) >>,
      << Message(<< TextPart(<<" ">>) >>) >>,
      << CallRelative >>,
      << Message(<< TextPart(<<"h", "i">>) >>), CallGetZone >>,
      << CallSetZone, CallExact >>,
      << CallUnknown, Message(<< CallBadJson, TextPart(<<"h">>) >>), CallExactBadOffset,
         CallRelativeBadTime, CallPinecone >> }

\* use_pinecone returns the hits above the threshold, [] also when the store fails
PineconeAnswers == {"no_hits", "hits"}

UserInputs ==
    { [text |-> <<"h", "i">>, file_content_summary |-> "none"],
      [text |-> <<"h", "i">>, file_content_summary |-> "huge"],
      [text |-> ForgetWord, file_content_summary |-> "none"],
      [text |-> <<" ", "F", "o", "r", "g", "e", "T", " ">>, file_content_summary |-> "none"],
      [text |-> ForgetWord \o <<" ", "i", "t">>, file_content_summary |-> "none"] }

HugeInput == [text |-> <<"h", "i">>, file_content_summary |-> "huge"]
EarlierTurns ==
    << SystemTurn, UserTurn([text |-> <<"h", "i">>, file_content_summary |-> "none"]),
       AssistantTurn(<<"h", "i">>) >>

\* the conversation record as earlier messages may have left it
InitConvoFiles ==
    { NoFile,
      Corrupt(1),
      Written(EarlierTurns),
      Written(Tail(EarlierTurns)),
      Written(<< SystemTurn, UserTurn(HugeInput), CallTurn(CallGetZone),
                 OutputTurn(CallGetZone, <<"Error executing", "get_user_timezone">>),
                 UserTurn(HugeInput), AssistantTurn(<<"h", "i">>) >>) }

DialogueIdle ==
    /\ o_pc = "off"
    /\ user_input_obj = [text |-> << >>, file_content_summary |-> "none"]
    /\ convo_file = NoFile
    /\ history = << >>
    /\ iter = 0
    /\ function_calls = << >>
    /\ ai_text = << >>
    /\ reply = None
    /\ user_timezones = << >>
    /\ n_req = 0
    /\ n_tools = 0
    /\ n_writes = 0
    /\ last_output = << >>
    /\ cap_hit = FALSE
    /\ sent_history = << >>
    /\ loaded_file = NoFile

ToolsIdle ==
    /\ z_log = << >>
    /\ z_result = None
    /\ x_args = None
    /\ x_result = None

ServerIdle ==
    /\ w_pc = << >>
    /\ w_msg = << >>
    /\ w_hist = << >>
    /\ w_last = 0
    /\ processed_files = << >>
    /\ convo_files = << >>
    /\ w_sent = << >>
    /\ t_pc = << >>
    /\ t_task = << >>

InitSched == SchedStart /\ DialogueIdle /\ ToolsIdle /\ ServerIdle

SchedOff ==
    /\ tasks_file = << >>
    /\ init_file = << >>
    /\ overlaid = {}
    /\ s_pc = "off"
    /\ oldest_task = None
    /\ s_tasks = << >>
    /\ now = 0
    /\ whatsapp_token = TRUE
    /\ sent = << >>
    /\ send_outcome = "none"
    /\ a_pc = "off"
    /\ a_tasks = << >>
    /\ n_adds = 0
    /\ requested = EmptyBag
    /\ appended = EmptyBag
    /\ removed = EmptyBag
    /\ poll_snap = << >>
    /\ poll_now = 0
    /\ cycle_due = FALSE
    /\ cycle_handled = << >>
    /\ s_read = << >>
    /\ s_written = << >>

InitDialogue ==
    /\ SchedOff
    /\ o_pc = "start"
    /\ user_input_obj \in UserInputs
    /\ convo_file \in InitConvoFiles
    /\ history = << >>
    /\ iter = 0
    /\ function_calls = << >>
    /\ ai_text = << >>
    /\ reply = None
    /\ user_timezones = << >>
    /\ n_req = 0
    /\ n_tools = 0
    /\ n_writes = 0
    /\ last_output = << >>
    /\ cap_hit = FALSE
    /\ sent_history = << >>
    /\ loaded_file = convo_file
    /\ ToolsIdle
    /\ ServerIdle

----------------------------------------------------------------------------
(* Dialogue Orchestrator: prompt_openai_response *)

\* lines 58-90: the reset command, or load the history, put the system turn
\* first, trim an oversized record and append the user turn
Receive ==
    /\ o_pc = "start"
    /\ IF IsResetCommand(user_input_obj)
       THEN /\ convo_file' = NoFile
            /\ reply' = ResetText
            /\ o_pc' = "done"
            /\ UNCHANGED <<history, n_writes>>
       ELSE LET loaded == LoadHistory(convo_file)
                oversized == NeedsTrim(convo_file)
                trimmed == IF oversized THEN TrimLoop(loaded, convo_file.size) ELSE loaded
            IN  /\ convo_file' = IF oversized THEN Written(trimmed) ELSE convo_file
                /\ n_writes' = IF oversized THEN n_writes + 1 ELSE n_writes
                /\ history' = Append(trimmed, UserTurn(user_input_obj))
                /\ o_pc' = "ask"
                /\ reply' = reply
    /\ UNCHANGED <<user_input_obj, iter, function_calls, ai_text, user_timezones, n_req,
                   n_tools, last_output, cap_hit, sent_history, loaded_file, schedVars,
                   toolVars, serverVars>>

\* lines 221-288: one pass of the for loop up to the tool calls -- the
\* completion request, the scan of response.output and the branch on it
AskModel ==
    /\ o_pc = "ask"
    /\ LoopGoesOn(iter)
    /\ iter' = iter + 1
    /\ n_req' = n_req + 1
    /\ sent_history' = history
    /\ \E output \in Outputs :
          /\ last_output' = output
          /\ IF TakesTools(CollectCalls(output), CollectText(output))
             THEN /\ function_calls' = CollectCalls(output)
                  /\ o_pc' = "tools"
                  /\ ai_text' = ai_text
             ELSE /\ function_calls' = << >>
                  /\ ai_text' = FinalText(CollectText(output))
                  /\ o_pc' = "persist"
    /\ UNCHANGED <<user_input_obj, convo_file, history, reply, user_timezones, n_tools,
                   n_writes, cap_hit, loaded_file, schedVars, toolVars, serverVars>>

\* line 223: client.responses.create raises; nothing in the function catches it
AskModelRaises ==
    /\ o_pc = "ask"
    /\ LoopGoesOn(iter)
    /\ iter' = iter + 1
    /\ n_req' = n_req + 1
    /\ sent_history' = history
    /\ o_pc' = "raised"
    /\ UNCHANGED <<user_input_obj, convo_file, history, function_calls, ai_text, reply,
                   user_timezones, n_tools, n_writes, last_output, cap_hit, loaded_file,
                   schedVars, toolVars, serverVars>>

\* lines 251-279: execute the next tool call of the response and append its
\* call and result turns; after the last one the for loop goes on or runs out
ExecuteTool ==
    /\ o_pc = "tools"
    /\ function_calls # << >>
    /\ \E pine \in PineconeAnswers :
          LET call == Head(function_calls)
              done == DispatchTool(call.name, ParsedArgs(call), get_tasks, user_timezones, pine)
          IN  /\ history' = history \o ToolTurns(call, ToolOutput(done.result))
              /\ tasks_file' = done.tasks
              /\ user_timezones' = done.zones
    /\ function_calls' = Tail(function_calls)
    /\ n_tools' = n_tools + 1
    /\ IF Tail(function_calls) # << >>
       THEN UNCHANGED <<o_pc, cap_hit>>
       ELSE IF LoopGoesOn(iter)
            THEN o_pc' = "ask" /\ cap_hit' = cap_hit
            ELSE o_pc' = "persist" /\ cap_hit' = TRUE
    /\ UNCHANGED <<user_input_obj, convo_file, iter, ai_text, reply, n_req, n_writes,
                   last_output, overlaid, s_pc, oldest_task, s_tasks, now, whatsapp_token,
                   sent, send_outcome, a_pc, a_tasks, n_adds, requested, appended, removed,
                   poll_snap, poll_now, cycle_due, cycle_handled, s_read, s_written,
                   init_file, sent_history, loaded_file, toolVars, serverVars>>

\* lines 292-301: append the assistant turn when there is a reply text, write
\* the conversation record, return ai_text
Persist ==
    /\ o_pc = "persist"
    /\ history' = IF ai_text # << >> THEN Append(history, AssistantTurn(ai_text)) ELSE history
    /\ convo_file' = Written(history')
    /\ n_writes' = n_writes + 1
    /\ reply' = ai_text
    /\ o_pc' = "done"
    /\ UNCHANGED <<user_input_obj, iter, function_calls, ai_text, user_timezones, n_req,
                   n_tools, last_output, cap_hit, sent_history, loaded_file, schedVars,
                   toolVars, serverVars>>

----------------------------------------------------------------------------
(* Timezone Store: set and get called one after another *)

MaxZoneOps == 3

ZoneKeys == {"u", "v"}
ZoneValues == {Offset("UTC", "+int", 2), Offset("UTC", "-int", -5), Offset("", "junk", 0)}

InitZones == SchedOff /\ DialogueIdle /\ ToolsIdle /\ ServerIdle

\* handle_timezones.py lines 4-16
SetZone ==
    /\ Len(z_log) < MaxZoneOps
    /\ \E k \in ZoneKeys, v \in ZoneValues :
          /\ user_timezones' = set_user_timezone(user_timezones, k, v)
          /\ z_log' = Append(z_log, [op |-> "set", key |-> k, value |-> v])
    /\ UNCHANGED <<serverVars, z_result, x_args, x_result, schedVars, o_pc, user_input_obj, convo_file,
                   history, iter, function_calls, ai_text, reply, n_req, n_tools, n_writes,
                   last_output, cap_hit, sent_history, loaded_file>>

\* handle_timezones.py lines 18-32
GetZone ==
    /\ Len(z_log) < MaxZoneOps
    /\ \E k \in ZoneKeys :
          /\ z_result' = get_user_timezone(user_timezones, k)
          /\ z_log' = Append(z_log, [op |-> "get", key |-> k])
    /\ UNCHANGED <<x_args, x_result, schedVars, dialogueVars, serverVars>>

NextZones == SetZone \/ GetZone

SpecZones == InitZones /\ [][NextZones]_vars

----------------------------------------------------------------------------
(* add_task_exact_time called once, over the offsets around its range *)

ExactHours == (OffsetLow - 2)..(OffsetHigh + 2)

ExactOffsets ==
    { Offset("UTC", IF h < 0 THEN "-int" ELSE "+int", h) : h \in ExactHours }
    \cup { Offset("UTC", "", 0), Offset("UTC", "junk", 0), Offset("GMT", "+int", 2),
           Offset("UTC", "int", 3), Offset("utc", "+int", 3), Offset("UTC", "int", 15) }

ExactCalls == [tool : {"exact", "relative"}, time_str : TimeStrs, offset : ExactOffsets]

InitExact ==
    /\ SchedOff /\ DialogueIdle
    /\ z_log = << >>
    /\ z_result = None
    /\ x_args \in ExactCalls
    /\ x_result = None
    /\ ServerIdle

\* schedule_tasks.py lines 38-91, with no other writer of tasks.json about
ScheduleExact ==
    /\ x_result = None
    /\ x_args.tool = "exact"
    /\ LET task == add_task_exact_time("a", x_args.time_str, "u", "p", x_args.offset) IN
          /\ x_result' = task
          /\ tasks_file' = IF IsErr(task) THEN tasks_file ELSE Append(get_tasks, task)
    /\ UNCHANGED <<overlaid, s_pc, oldest_task, s_tasks, now, whatsapp_token, sent,
                   send_outcome, a_pc, a_tasks, n_adds, requested, appended, removed,
                   poll_snap, poll_now, cycle_due, cycle_handled, s_read, s_written,
                   init_file, dialogueVars, z_log, z_result, x_args, serverVars>>

\* schedule_tasks.py lines 93-134: the same call without an offset parameter
ScheduleRelative ==
    /\ x_result = None
    /\ x_args.tool = "relative"
    /\ LET task == add_task_relative_time("a", x_args.time_str, "u", "p") IN
          /\ x_result' = task
          /\ tasks_file' = IF IsErr(task) THEN tasks_file ELSE Append(get_tasks, task)
    /\ UNCHANGED <<overlaid, s_pc, oldest_task, s_tasks, now, whatsapp_token, sent,
                   send_outcome, a_pc, a_tasks, n_adds, requested, appended, removed,
                   poll_snap, poll_now, cycle_due, cycle_handled, s_read, s_written,
                   init_file, dialogueVars, z_log, z_result, x_args, serverVars>>

NextExact == ScheduleExact \/ ScheduleRelative

SpecExact == InitExact /\ [][NextExact]_vars

----------------------------------------------------------------------------
(* The webhook: several deliveries handled on one event loop.  A handler  *)
(* runs without interruption from one await to the next.                 *)

MaxDeliveries == 2

Deliveries == 1..MaxDeliveries

\* msg.get("from"), msg.get("id") and the text of a delivery; "" is a missing value
WebhookMsg(from, id, text) == [from |-> from, id |-> id, text |-> text]

WebhookMsgs ==
    { WebhookMsg("u", "m1", <<"h", "i">>),
      WebhookMsg("u", "m2", ForgetWord),
      WebhookMsg("v", "m1", <<"h", "i">>),
      WebhookMsg("", "m1", <<"h", "i">>),
      WebhookMsg("u", "m0", <<"h", "i">>),
      WebhookMsg("u", "", <<"h", "i">>) }

\* main.py line 77: temp_message_ids/<from>.json, general.json without a sender
ProcessedFile(msg) == IF msg.from = "" THEN "general" ELSE msg.from

\* main.py line 131: temp_conversations/<from>.json, general.json without a sender
ConvoFile_General(msg) == "general"
ConvoFile(msg) == IF msg.from = "" THEN "general" ELSE msg.from

\* main.py line 87: message_id in existing_ids
AlreadyProcessed_Never(id, ids) == FALSE
AlreadyProcessed(id, ids) == \E i \in 1..Len(ids) : ids[i] = id

\* a directory of files as a function from file name to content
ReadIds(name) == IF name \in DOMAIN processed_files THEN processed_files[name] ELSE << >>
ReadConvo(name) == IF name \in DOMAIN convo_files THEN convo_files[name] ELSE NoFile
Put(dir, name, content) ==
    [n \in DOMAIN dir \cup {name} |-> IF n = name THEN content ELSE dir[n]]
Drop(dir, name) == [n \in DOMAIN dir \ {name} |-> dir[n]]

\* main.py line 133
InputObj(msg) == [text |-> msg.text, file_content_summary |-> "none"]

\* temp_conversations/ as earlier messages left it: a record for sender v
StoredConvos == [n \in {"v"} |-> Written(EarlierTurns)]

InitWebhook ==
    /\ SchedOff /\ DialogueIdle /\ ToolsIdle
    /\ w_msg \in [Deliveries -> WebhookMsgs]
    /\ w_pc = [d \in Deliveries |-> "arrived"]
    /\ w_hist = [d \in Deliveries |-> << >>]
    /\ w_last = 0
    /\ processed_files = [n \in {"u"} |-> << "m0" >>]
    /\ convo_files = StoredConvos
    /\ w_sent = << >>
    /\ t_pc = << >>
    /\ t_task = << >>

\* main.py lines 59-93: no message id, a duplicate, or the id recorded
WebhookDedup(d) ==
    /\ w_pc[d] = "arrived"
    /\ w_last' = d
    /\ LET msg == w_msg[d]
           ids == ReadIds(ProcessedFile(msg))
       IN  IF msg.id = ""
           THEN w_pc' = [w_pc EXCEPT ![d] = "skipped"] /\ UNCHANGED processed_files
           ELSE IF AlreadyProcessed(msg.id, ids)
           THEN w_pc' = [w_pc EXCEPT ![d] = "duplicate"] /\ UNCHANGED processed_files
           ELSE /\ w_pc' = [w_pc EXCEPT ![d] = "handle"]
                /\ processed_files' = Put(processed_files, ProcessedFile(msg), Append(ids, msg.id))
    /\ UNCHANGED <<w_msg, w_hist, convo_files, w_sent, t_pc, t_task, schedVars, dialogueVars,
                   toolVars>>

\* main.py lines 127-134 and prompt_ai.py lines 56-90, up to the first
\* completion request
WebhookLoad(d) ==
    /\ w_pc[d] = "handle"
    /\ w_last' = d
    /\ LET msg == w_msg[d]
           name == ConvoFile(msg)
           file == ReadConvo(name)
       IN  IF IsResetCommand(InputObj(msg))
           THEN /\ convo_files' = Drop(convo_files, name)
                /\ w_pc' = [w_pc EXCEPT ![d] = "send"]
                /\ UNCHANGED w_hist
           ELSE LET loaded == LoadHistory(file)
                    trimmed == IF NeedsTrim(file) THEN TrimLoop(loaded, file.size) ELSE loaded
                IN  /\ convo_files' = IF NeedsTrim(file)
                                      THEN Put(convo_files, name, Written(trimmed))
                                      ELSE convo_files
                    /\ w_hist' = [w_hist EXCEPT ![d] = Append(trimmed, UserTurn(InputObj(msg)))]
                    /\ w_pc' = [w_pc EXCEPT ![d] = "asking"]
    /\ UNCHANGED <<w_msg, processed_files, w_sent, t_pc, t_task, schedVars, dialogueVars,
                   toolVars>>

\* prompt_ai.py lines 223-301: the completion comes back with a text and the
\* history is written
WebhookComplete(d) ==
    /\ w_pc[d] = "asking"
    /\ w_last' = d
    /\ LET done == Append(w_hist[d], AssistantTurn(<<"h", "i">>)) IN
          /\ w_hist' = [w_hist EXCEPT ![d] = done]
          /\ convo_files' = Put(convo_files, ConvoFile(w_msg[d]), Written(done))
    /\ w_pc' = [w_pc EXCEPT ![d] = "send"]
    /\ UNCHANGED <<w_msg, processed_files, w_sent, t_pc, t_task, schedVars, dialogueVars,
                   toolVars>>

\* prompt_ai.py line 223: the completion raises, and so does the handler
WebhookRaises(d) ==
    /\ w_pc[d] = "asking"
    /\ w_last' = d
    /\ w_pc' = [w_pc EXCEPT ![d] = "raised"]
    /\ UNCHANGED <<w_msg, w_hist, processed_files, convo_files, w_sent, t_pc, t_task,
                   schedVars, dialogueVars, toolVars>>

\* main.py lines 135-140
WebhookSend(d) ==
    /\ w_pc[d] = "send"
    /\ w_last' = d
    /\ w_sent' = IF w_msg[d].from # ""
                 THEN Append(w_sent, [to |-> w_msg[d].from, id |-> w_msg[d].id])
                 ELSE w_sent
    /\ w_pc' = [w_pc EXCEPT ![d] = "received"]
    /\ UNCHANGED <<w_msg, w_hist, processed_files, convo_files, t_pc, t_task, schedVars,
                   dialogueVars, toolVars>>

NextWebhook ==
    \/ \E d \in Deliveries : WebhookDedup(d)
    \/ \E d \in Deliveries : WebhookLoad(d)
    \/ \E d \in Deliveries : WebhookComplete(d)
    \/ \E d \in Deliveries : WebhookRaises(d)
    \/ \E d \in Deliveries : WebhookSend(d)

SpecWebhook == InitWebhook /\ [][NextWebhook]_vars

----------------------------------------------------------------------------
(* start_scheduler called more than once: every call starts a thread that *)
(* runs check_tasks                                                       *)

MaxStarts == 2

InitStart ==
    /\ SchedOff /\ DialogueIdle /\ ToolsIdle
    /\ w_pc = << >>
    /\ w_msg = << >>
    /\ w_hist = << >>
    /\ w_last = 0
    /\ processed_files = << >>
    /\ convo_files = << >>
    /\ w_sent = << >>
    /\ t_pc = << >>
    /\ t_task = << >>

startFrame == <<overlaid, s_pc, oldest_task, s_tasks, now, whatsapp_token, send_outcome,
                a_pc, a_tasks, n_adds, requested, appended, removed, poll_snap, poll_now,
                cycle_due, cycle_handled, s_read, s_written, init_file, dialogueVars,
                toolVars, w_pc, w_msg, w_hist, w_last, processed_files, convo_files, w_sent>>

\* schedule_tasks.py line 210: threading.Thread(target=check_tasks).start();
\* the first call also finds tasks.json as earlier runs left it
StartScheduler ==
    /\ Len(t_pc) < MaxStarts
    /\ t_pc' = Append(t_pc, "poll")
    /\ t_task' = Append(t_task, None)
    /\ IF t_pc = << >> THEN tasks_file' \in InitFiles ELSE UNCHANGED tasks_file
    /\ UNCHANGED <<sent, startFrame>>

\* lines 176-184 in thread i
ThreadPoll(i) ==
    /\ t_pc[i] = "poll"
    /\ t_task' = [t_task EXCEPT ![i] = get_oldest_task]
    /\ t_pc' = [t_pc EXCEPT ![i] =
                   IF get_oldest_task # None /\ IsDue(get_oldest_task, now)
                   THEN "deliver" ELSE "sleep"]
    /\ UNCHANGED <<tasks_file, sent, startFrame>>

\* lines 189-201 in thread i, the send answering
ThreadDeliver(i) ==
    /\ t_pc[i] = "deliver"
    /\ sent' = IF whatsapp_token /\ t_task[i].phone_number_id # "" /\ t_task[i].to # ""
               THEN Append(sent, t_task[i]) ELSE sent
    /\ t_pc' = [t_pc EXCEPT ![i] = "remove"]
    /\ UNCHANGED <<tasks_file, t_task, startFrame>>

\* lines 205-208 in thread i: tasks.remove raises ValueError, which ends the
\* thread, when another thread has removed the task
ThreadRemove(i) ==
    /\ t_pc[i] = "remove"
    /\ IF Contains(get_tasks, t_task[i])
       THEN /\ tasks_file' = ListRemove(get_tasks, t_task[i])
            /\ t_pc' = [t_pc EXCEPT ![i] = "sleep"]
       ELSE /\ UNCHANGED tasks_file
            /\ t_pc' = [t_pc EXCEPT ![i] = "dead"]
    /\ UNCHANGED <<sent, t_task, startFrame>>

\* line 209 in thread i
ThreadSleep(i) ==
    /\ t_pc[i] = "sleep"
    /\ t_pc' = [t_pc EXCEPT ![i] = "poll"]
    /\ UNCHANGED <<tasks_file, sent, t_task, startFrame>>

NextStart ==
    \/ StartScheduler
    \/ \E i \in 1..Len(t_pc) : ThreadPoll(i)
    \/ \E i \in 1..Len(t_pc) : ThreadDeliver(i)
    \/ \E i \in 1..Len(t_pc) : ThreadRemove(i)
    \/ \E i \in 1..Len(t_pc) : ThreadSleep(i)

SpecStart == InitStart /\ [][NextStart]_vars

----------------------------------------------------------------------------

NextDialogue == Receive \/ AskModel \/ AskModelRaises \/ ExecuteTool \/ Persist

SpecDialogue == InitDialogue /\ [][NextDialogue]_vars

\* every completion and every tool call returns, and the handler runs on
SpecDialogueFair == SpecDialogue /\ WF_vars(NextDialogue)

Next ==
    \/ Poll \/ CheckDue \/ Deliver \/ RemoveRead \/ RemoveOpen \/ RemoveDump \/ Sleep
    \/ Tick
    \/ AddExactBegin \/ AddRelativeBegin \/ AddOpen \/ AddDump

Spec == InitSched /\ [][Next]_vars

----------------------------------------------------------------------------
(* Properties of the task store and the scheduler, checked under Spec *)

Tasks(bag) == BagToSet(bag)
KnownTasks ==
    Tasks(BagOfSeq(tasks_file)) \cup Tasks(BagOfSeq(init_file)) \cup Tasks(requested)
        \cup Tasks(removed) \cup Tasks(BagOfSeq(sent))

\* no add_task_* call and no REMOVE write is under way
Quiescent == a_pc = "idle" /\ s_pc \notin {"remove_open", "remove_dump"}

\* C1: no lost updates -- once every append and every read-remove-write step
\* has finished, the store holds exactly the tasks it started with plus the
\* appended ones minus the removed ones.
C1_NoLostUpdates ==
    Quiescent =>
        \A t \in KnownTasks :
            CopiesIn(t, BagOfSeq(tasks_file)) + CopiesIn(t, removed)
                = CopiesIn(t, BagOfSeq(init_file)) + CopiesIn(t, appended)

\* C2: a task is deleted exactly once and sent at most once -- a task the
\* scheduler has removed never is in the store again, and no task is sent
\* more often than it was scheduled.
C2_RemovedOnceSentOnce ==
    \A t \in KnownTasks :
        LET scheduled == CopiesIn(t, BagOfSeq(init_file)) + CopiesIn(t, requested) IN
        /\ CopiesIn(t, BagOfSeq(tasks_file)) + CopiesIn(t, removed) <= scheduled
        /\ CopiesIn(t, BagOfSeq(sent)) <= scheduled

IsOldestOf(o, store) ==
    /\ (o = None) <=> (store = << >>)
    /\ o # None =>
          /\ Contains(store, o)
          /\ \A i \in DOMAIN store : parse_time(o) <= parse_time(store[i])

\* C3: get_oldest_task returns a task of minimum normalized UTC due time among
\* the tasks in the store, and none exactly when the store is empty; this
\* holds for the store as it is now and for what every poll got.
C3_OldestIsMinimum ==
    /\ IsOldestOf(get_oldest_task, tasks_file)
    /\ IsOldestOf(oldest_task, poll_snap)

\* a poll, after an append and a remove, of a store whose oldest task is not
\* the first of the list
C3_Witness ==
    /\ s_pc = "check"
    /\ appended # EmptyBag
    /\ removed # EmptyBag
    /\ Len(poll_snap) >= 2
    /\ oldest_task # poll_snap[1]

DueAtPoll(task) == parse_time(task) <= poll_now

C5_FutureTaskUntouched ==
    [][ (s_pc = "check" /\ s_pc' # "check" /\ parse_time(oldest_task) > now)
            => /\ s_pc' = "sleep"
               /\ tasks_file' = tasks_file
               /\ sent' = sent
               /\ removed' = removed ]_vars

\* a cycle that found its oldest task not yet due and went to SLEEP with the
\* task still in the store
C5_Witness ==
    /\ s_pc = "sleep"
    /\ oldest_task # None
    /\ ~cycle_due
    /\ parse_time(oldest_task) > now
    /\ Contains(tasks_file, oldest_task)
    /\ cycle_handled = << >>

\* C6: a failed send, also one that raises, does not stop the scheduler --
\* the thread goes on to REMOVE and SLEEP.
C6_SendFailureDoesNotStop ==
    send_outcome \in {"http_error", "raised"} =>
        s_pc \in {"remove_read", "remove_open", "remove_dump", "sleep"}
           \/ (s_pc = "dead" /\ send_outcome # "raised")

----------------------------------------------------------------------------
(* Properties of the dialogue loop, checked under SpecDialogue *)

Answered == n_req > 0 /\ o_pc # "raised"
HasCalls(output) == CollectCalls(output) # << >>
HasText(output) == CollectText(output) # << >>
LastTurn(turns) == turns[Len(turns)]

\* C7: when all 5 responses held tool calls, so that the iteration cap is
\* reached without final text, the fixed fallback reply is returned.
C7_CapGivesFallback ==
    (o_pc = "done" /\ cap_hit) => reply = FallbackText

\* C8: a response with neither text nor tool calls ends the loop at once --
\* no further completion request and no tool call follow -- and the fixed
\* fallback reply is returned and persisted as the assistant turn.
C8_NeitherGivesFallback ==
    /\ [](  (Answered /\ ~HasCalls(last_output) /\ ~HasText(last_output)) =>
              /\ o_pc \in {"persist", "done"}
              /\ ai_text = FallbackText
              /\ o_pc = "done" =>
                    /\ reply = FallbackText
                    /\ convo_file.exists /\ convo_file.parses
                    /\ LastTurn(convo_file.turns) = AssistantTurn(FallbackText) )
    /\ [][ (Answered /\ ~HasCalls(last_output) /\ ~HasText(last_output))
              => (n_req' = n_req /\ n_tools' = n_tools) ]_vars

\* a handling that ended on an empty response after a tool cycle
C8_Witness ==
    /\ o_pc = "done"
    /\ n_req >= 2
    /\ n_tools >= 1
    /\ ~HasCalls(last_output) /\ ~HasText(last_output)
    /\ reply = FallbackText

\* C9: the loop for one message terminates and issues at most 5 completion
\* requests, whatever the model returns.
C9_TerminatesWithinCap ==
    /\ [](n_req <= 5)
    /\ <>(o_pc \in {"done", "raised"})

\* a handling that used all five requests and came to its end
C9_Witness ==
    /\ o_pc = "done"
    /\ n_req = 5
    /\ n_tools >= 5

\* C10 as stated: after a response with text and no tool call the returned
\* reply is that text.
C10_TextReplyVerbatim ==
    (o_pc = "done" /\ Answered /\ ~HasCalls(last_output) /\ HasText(last_output))
        => reply = Join(CollectText(last_output))

\* C10 amended: a response with text and no tool call ends the loop at once --
\* no further completion request, no tool call -- and the returned reply is
\* that text with leading and trailing whitespace stripped.
C10_TextReplyStripped ==
    /\ [](  (Answered /\ ~HasCalls(last_output) /\ HasText(last_output)) =>
              /\ o_pc \in {"persist", "done"}
              /\ ai_text = Strip(Join(CollectText(last_output)))
              /\ o_pc = "done" => reply = Strip(Join(CollectText(last_output))) )
    /\ [][ (Answered /\ ~HasCalls(last_output) /\ HasText(last_output))
              => (n_req' = n_req /\ n_tools' = n_tools) ]_vars

\* a handling that ended on a text response whose text had surrounding
\* whitespace, after a tool cycle
C10_Witness ==
    /\ o_pc = "done"
    /\ n_tools >= 1
    /\ ~HasCalls(last_output) /\ HasText(last_output)
    /\ reply = <<"h", "i">>
    /\ Join(CollectText(last_output)) = <<" ", "h", "i", " ">>

\* The turns history ends with, for each call of calls in order, the call turn
\* and a result turn carrying the same call_id.
EndsWithToolTurns(turns, calls) ==
    LET base == Len(turns) - 2 * Len(calls) IN
    /\ base >= 0
    /\ \A j \in 1..Len(calls) :
          /\ turns[base + 2 * j - 1] = CallTurn(calls[j])
          /\ "type" \in DOMAIN turns[base + 2 * j]
          /\ turns[base + 2 * j].type = "function_call_output"
          /\ turns[base + 2 * j].call_id = calls[j].call_id

ToolsDone == n_req > 0 /\ o_pc \notin {"raised", "tools"} /\ HasCalls(last_output)

\* C11 as stated: in every cycle whose response contains tool calls, once the
\* tools are executed and their call and result turns appended, the loop is
\* about to make one more completion request.
C11_EveryCycleAsksAgain ==
    ToolsDone =>
        /\ EndsWithToolTurns(history, CollectCalls(last_output))
        /\ o_pc = "ask"

\* C11 amended: the tools of every response with tool calls are executed and
\* their call and result turns appended; for the first four responses exactly
\* one more completion request follows and is sent the history holding those
\* turns; after the fifth response the loop ends without another request.
C11_CyclesBelowCapAskAgain ==
    /\ [](ToolsDone =>
            /\ EndsWithToolTurns(history, CollectCalls(last_output))
            /\ n_req < max_tool_iterations => o_pc = "ask"
            /\ n_req >= max_tool_iterations =>
                  n_req = max_tool_iterations /\ cap_hit /\ o_pc \in {"persist", "done"})
    /\ [][n_req' # n_req => n_req' = n_req + 1 /\ sent_history' = history]_vars
    /\ (o_pc = "tools" /\ n_req < max_tool_iterations)
          ~> (o_pc = "ask" /\ EndsWithToolTurns(history, CollectCalls(last_output)))

C11_Witness ==
    /\ o_pc = "done"
    /\ n_req = max_tool_iterations
    /\ cap_hit
    /\ HasCalls(last_output)
    /\ EndsWithToolTurns(history, CollectCalls(last_output))

Completed == o_pc = "done" /\ ~IsResetCommand(user_input_obj)

C13_PersistedEndsWithReply ==
    Completed =>
        LET turns == convo_file.turns
            user_at == Len(turns) - 1 - 2 * n_tools
        IN  /\ convo_file.exists
            /\ user_at >= 1
            /\ LastTurn(turns) = AssistantTurn(reply)
            /\ turns[user_at] = UserTurn(user_input_obj)
            /\ \A j \in 1..n_tools :
                  /\ "type" \in DOMAIN turns[user_at + 2 * j - 1]
                  /\ turns[user_at + 2 * j - 1].type = "function_call"
                  /\ turns[user_at + 2 * j].type = "function_call_output"
                  /\ turns[user_at + 2 * j].call_id = turns[user_at + 2 * j - 1].call_id

SaysForget == LowerStr(Strip(user_input_obj.text)) = ForgetWord

\* C14: a message whose text, trimmed and lower-cased, is "forget" deletes the
\* conversation record (also when there is none), returns the fixed
\* confirmation, and makes no completion request, tool call or write; a message
\* with any other text never deletes the record.
C14_ResetCommand ==
    /\ SaysForget =>
          /\ o_pc \in {"start", "done"}
          /\ n_req = 0 /\ n_tools = 0 /\ n_writes = 0
          /\ o_pc = "done" => convo_file = NoFile /\ reply = ResetText
    /\ ~SaysForget =>
          /\ loaded_file.exists => convo_file.exists
          /\ o_pc = "done" => convo_file.exists /\ n_req > 0

C14_Witness ==
    /\ o_pc = "done"
    /\ SaysForget
    /\ user_input_obj.text # ForgetWord
    /\ loaded_file.exists
    /\ convo_file = NoFile
    /\ reply = ResetText

\* the record found at load gives no history that starts with a system turn:
\* there is none, it does not parse, it is empty or starts with another turn
LoadedLacksSystem ==
    IF ~loaded_file.exists THEN TRUE
    ELSE IF ~loaded_file.parses THEN TRUE
    ELSE IF loaded_file.turns = << >> THEN TRUE
    ELSE RoleOf(loaded_file.turns[1]) # "system"

Loaded == o_pc \in {"ask", "tools", "persist", "raised"} \/ Completed

\* C15: every history sent to the model and every record the handler writes
\* starts with a system turn; it is the synthesized system turn when the stored
\* record was missing, empty, corrupt or did not start with one; and no step,
\* eviction included, removes or replaces the first turn of the history.
C15_SystemTurnFirst ==
    /\ [](/\ n_req > 0 => sent_history # << >> /\ RoleOf(sent_history[1]) = "system"
          /\ n_writes > 0 =>
                /\ convo_file.exists
                /\ convo_file.turns # << >>
                /\ RoleOf(convo_file.turns[1]) = "system"
          /\ Loaded => history # << >> /\ RoleOf(history[1]) = "system"
          /\ Loaded /\ LoadedLacksSystem => history[1] = SystemTurn
          /\ Loaded /\ ~LoadedLacksSystem => history[1] = loaded_file.turns[1])
    /\ [][history # << >> => history' # << >> /\ history'[1] = history[1]]_vars

C15_Witness ==
    /\ Completed
    /\ loaded_file.exists
    /\ loaded_file.parses
    /\ RoleOf(loaded_file.turns[1]) = "user"
    /\ n_req > 0
    /\ sent_history[1] = SystemTurn
    /\ convo_file.turns[1] = SystemTurn
    /\ convo_file.turns[2] = loaded_file.turns[1]

\* Eviction as C16 describes it: drop the oldest non-system turn while the
\* history that remains is still over the bound.
RECURSIVE EvictUntilFits(_)
EvictUntilFits(hist) ==
    IF Len(hist) > 1 /\ SizeOf(hist) > max_size
    THEN EvictUntilFits(<< hist[1] >> \o SubSeq(hist, 3, Len(hist)))
    ELSE hist

Evicted == n_writes = 1 /\ o_pc = "ask" /\ n_req = 0

\* C16: when the stored record exceeds the bound, the oldest non-system turns
\* are removed one at a time from index 1 and removal stops as soon as the
\* remaining history is under the bound, so the turns that fit are kept; the
\* system turn stays.
C16_EvictionStopsWhenUnderBound ==
    Evicted =>
        /\ convo_file.turns[1] = loaded_file.turns[1]
        /\ convo_file.turns = EvictUntilFits(loaded_file.turns)

\* C17: after every completed handling of a non-reset message the persisted
\* record is no larger than the bound: eviction covers the turns the message
\* itself appended.
C17_PersistedWithinBound ==
    Completed => convo_file.exists /\ convo_file.size <= max_size

ToolNames ==
    {"add_task_exact_time", "add_task_relative_time", "get_user_timezone",
     "set_user_timezone", "use_pinecone"}

\* calls whose tool raises: arguments that do not parse (so the required ones
\* are missing), a timezone read for a number with no record, an offset hour
\* above the range
MustRaise(call) ==
    IF ~call.arguments.json_ok THEN TRUE
    ELSE IF call.name = "get_user_timezone"
         THEN call.arguments.kw.to_number \notin DOMAIN user_timezones
    ELSE IF call.name = "add_task_exact_time"
         THEN "offset" \in DOMAIN call.arguments.kw /\ call.arguments.kw.offset.h > OffsetHigh
    ELSE FALSE

\* C18: executing a tool call never raises into the loop. An unknown tool name
\* gives the "unknown tool" error value and a tool that raises gives the
\* "error executing" string naming the tool; either way the stores are left
\* alone, the call turn and the result turn are appended, and the loop goes on
\* to the next call or the next completion request.
C18_ToolFailuresBecomeResults ==
    [][o_pc = "tools" =>
         LET call == Head(function_calls)
             n == Len(history)
         IN  /\ o_pc' \in {"tools", "ask", "persist"}
             /\ Len(history') = n + 2
             /\ SubSeq(history', 1, n) = history
             /\ history'[n + 1] = CallTurn(call)
             /\ history'[n + 2].type = "function_call_output"
             /\ history'[n + 2].call_id = call.call_id
             /\ call.name \notin ToolNames =>
                   /\ history'[n + 2].output = <<"Error: Unknown tool", call.name>>
                   /\ UNCHANGED <<tasks_file, user_timezones>>
             /\ call.name \in ToolNames /\ MustRaise(call) =>
                   /\ history'[n + 2].output = <<"Error executing", call.name>>
                   /\ UNCHANGED <<tasks_file, user_timezones>>
             /\ Tail(function_calls) # << >> =>
                   o_pc' = "tools" /\ function_calls' = Tail(function_calls)
             /\ Tail(function_calls) = << >> /\ n_req < max_tool_iterations => o_pc' = "ask"
    ]_vars

HasOutput(turns, call, output) ==
    \E i \in 2..Len(turns) :
        /\ turns[i - 1] = CallTurn(call)
        /\ turns[i] = OutputTurn(call, output)

C18_Witness ==
    /\ o_pc = "ask"
    /\ n_req > 0
    /\ HasOutput(history, CallUnknown, <<"Error: Unknown tool", "send_email">>)
    /\ HasOutput(history, CallBadJson, <<"Error executing", CallBadJson.name>>)
    /\ HasOutput(history, CallExactBadOffset, <<"Error executing", "add_task_exact_time">>)

\* the place in log of the latest set for key k, 0 when there is none
RECURSIVE LastSetAt(_, _, _)
LastSetAt(log, k, i) ==
    IF i = 0 THEN 0
    ELSE IF log[i].op = "set" /\ log[i].key = k THEN i
    ELSE LastSetAt(log, k, i - 1)

\* C19: a get for a key gives the value of the latest set for that key,
\* whatever gets came before and whatever was set for other keys, and fails
\* as not found when the key was never set; a get leaves the store as it was.
C19_GetReturnsLatestSet ==
    /\ [](z_log # << >> /\ z_log[Len(z_log)].op = "get" =>
            LET k == z_log[Len(z_log)].key
                at == LastSetAt(z_log, k, Len(z_log))
            IN  IF at = 0 THEN z_result = Err("FileNotFoundError")
                ELSE z_result = [timezone |-> z_log[at].value])
    /\ [][z_log' # z_log /\ z_log'[Len(z_log')].op = "get" =>
            user_timezones' = user_timezones]_vars

C19_Witness ==
    /\ Len(z_log) = 3
    /\ z_log[1].op = "set" /\ z_log[1].key = "u"
    /\ z_log[2].op = "set" /\ z_log[2].key = "v" /\ z_log[2].value # z_log[1].value
    /\ z_log[3].op = "get" /\ z_log[3].key = "u"
    /\ z_result = [timezone |-> z_log[1].value]

ExactCalled == x_result # None

\* the call has a time that parses and an offset "UTC" followed by an integer
WellFormedExact ==
    /\ x_args.tool = "exact"
    /\ x_args.time_str.fmt # "bad"
    /\ x_args.offset.prefix = "UTC"
    /\ x_args.offset.rem \in {"+int", "-int"}

\* C20: add_task_exact_time fails with the range error for every offset hour
\* below -11 or above 14 and stores nothing; for every hour from -11 to 14,
\* both ends included, it succeeds and appends the task.
C20_OffsetRangeInclusive ==
    ExactCalled /\ WellFormedExact =>
        IF x_args.offset.h < -11 \/ x_args.offset.h > 14
        THEN /\ x_result = Err("UTC offset must be between -11 and +14 hours (inclusive).")
             /\ tasks_file = << >>
        ELSE /\ ~IsErr(x_result)
             /\ tasks_file = << x_result >>

C20_Witness ==
    /\ ExactCalled
    /\ WellFormedExact
    /\ x_args.offset.h = 14
    /\ ~IsErr(x_result)
    /\ tasks_file = << x_result >>

\* what fromisoformat and the conversion to UTC make of the time string of the
\* call: a naive time is taken as UTC, an aware one is shifted by its offset
ParsedUTC ==
    IF x_args.time_str.fmt = "naive" THEN x_args.time_str.t
    ELSE x_args.time_str.t - x_args.time_str.off

GivenHours == IF x_args.offset.rem = "" THEN 0 ELSE x_args.offset.h

Stored == ExactCalled /\ ~IsErr(x_result)

\* C21: the task add_task_exact_time stores is due, in UTC, at the parsed time
\* minus the offset hours, a naive time being taken as UTC; the task
\* add_task_relative_time stores for the same time string is due at the parsed
\* UTC time unchanged.
C21_StoredTimeArithmetic ==
    Stored =>
        /\ tasks_file = << x_result >>
        /\ x_result.time.fmt = "aware" /\ x_result.time.off = 0
        /\ x_args.tool = "exact" => x_result.time.t = ParsedUTC - GivenHours
        /\ x_args.tool = "relative" => x_result.time.t = ParsedUTC

C21_Witness ==
    /\ Stored
    /\ x_args.tool = "exact"
    /\ x_args.time_str = Naive(2)
    /\ x_args.offset.h = 2
    /\ x_result.time = Aware(0, 0)

\* a scheduling call whose arguments bind but do not pass validation: a time
\* string that does not parse, or an offset with a wrong prefix, a remainder
\* that is no integer, or an hour outside -11..14
ValidationFails(call) ==
    /\ call.name \in {"add_task_exact_time", "add_task_relative_time"}
    /\ call.arguments.json_ok
    /\ \/ call.arguments.kw.time_str.fmt = "bad"
       \/ /\ call.name = "add_task_exact_time"
          /\ "offset" \in DOMAIN call.arguments.kw
          /\ LET offset == call.arguments.kw.offset IN
                \/ offset.prefix # "UTC"
                \/ offset.rem = "junk"
                \/ offset.h < -11
                \/ offset.h > 14

\* C22: a scheduling call that fails validation leaves tasks.json as it was
\* and appends, after its call turn, a result turn with the error text naming
\* the tool; the loop does not stop: it goes on to the next call of the
\* response, or to the next completion request when one is left.
C22_ValidationFailureSurfaced ==
    [][o_pc = "tools" /\ ValidationFails(Head(function_calls)) =>
         LET call == Head(function_calls) IN
         /\ UNCHANGED tasks_file
         /\ history' = history \o << CallTurn(call),
                                     OutputTurn(call, <<"Error executing", call.name>>) >>
         /\ o_pc' \in {"tools", "ask", "persist"}
         /\ Tail(function_calls) # << >> => o_pc' = "tools"
         /\ Tail(function_calls) = << >> /\ n_req < max_tool_iterations => o_pc' = "ask"
    ]_vars

\* a failed exact call, a failed relative call, and in a later cycle the exact
\* call with a valid offset, which stored its task
C22_Witness ==
    /\ HasOutput(history, CallRelativeBadTime, <<"Error executing", "add_task_relative_time">>)
    /\ \E i, j \in 1..Len(history) :
          /\ i < j
          /\ history[i] = OutputTurn(CallExactBadOffset, <<"Error executing", "add_task_exact_time">>)
          /\ history[j] = CallTurn(CallExact)
    /\ Len(tasks_file) = 1
    /\ o_pc = "done"

\* C23: a completion request that fails is caught where it is made: the
\* failure never leaves the orchestrator, which goes on to return a reply.
C23_CompletionFailureCaught == o_pc # "raised"

PassedDedup(d) == w_pc[d] \in {"handle", "asking", "send", "received", "raised"}

SameMessage(d1, d2) ==
    /\ w_msg[d1].id # ""
    /\ w_msg[d1].id = w_msg[d2].id
    /\ w_msg[d1].from = w_msg[d2].from

\* C24: of the deliveries that carry the same message id from the same sender,
\* whatever the order their handlers run in, at most one gets past the
\* duplicate check to the orchestrator and the outbound send; a delivery whose
\* id is already in the sender's processed set never does.
C24_AtMostOneProcessed ==
    /\ \A d1, d2 \in Deliveries :
          d1 # d2 /\ SameMessage(d1, d2) => ~(PassedDedup(d1) /\ PassedDedup(d2))
    /\ \A d \in Deliveries :
          w_msg[d].from = "u" /\ w_msg[d].id = "m0" => ~PassedDedup(d)
    /\ \A i, j \in 1..Len(w_sent) : w_sent[i] = w_sent[j] => i = j

C24_Witness ==
    /\ SameMessage(1, 2)
    /\ w_msg[1].id = "m1"
    /\ w_pc[2] = "received"
    /\ w_pc[1] = "duplicate"
    /\ Len(w_sent) = 1

\* the two responses that hold text as well as tool calls, and their calls in
\* the order of the response
TextThenCall == << Message(<< TextPart(<<"h", "i">>) >>), CallGetZone >>
CallsAroundText ==
    << CallUnknown, Message(<< CallBadJson, TextPart(<<"h">>) >>), CallExactBadOffset,
       CallRelativeBadTime, CallPinecone >>

CallsInOrder(output) ==
    IF output = TextThenCall THEN << CallGetZone >>
    ELSE IF output = CallsAroundText
         THEN << CallUnknown, CallBadJson, CallExactBadOffset, CallRelativeBadTime, CallPinecone >>
    ELSE output

\* C25: a response with tool calls goes to the tool branch even when it also
\* holds text: its calls are executed in the order of the response, each call
\* turn directly followed by its result turn, all of them before the next
\* completion request; the text of such a response is neither returned nor
\* appended as an assistant turn.
C25_ToolCallsTakePriority ==
    /\ [](n_req > 0 /\ o_pc # "raised" /\ HasCalls(last_output) =>
            /\ ai_text = << >>
            /\ o_pc = "done" => reply = << >>
            /\ \A i \in (Len(history) - 2 * n_tools + 1)..Len(history) :
                  RoleOf(history[i]) # "assistant"
            /\ o_pc # "tools" => EndsWithToolTurns(history, CallsInOrder(last_output)))
    /\ [][n_req' = n_req + 1 /\ o_pc' # "raised" /\ last_output' \in {TextThenCall, CallsAroundText} =>
            /\ o_pc' = "tools"
            /\ function_calls' = CallsInOrder(last_output')
            /\ UNCHANGED <<history, ai_text>>]_vars
    /\ [][o_pc = "tools" =>
            /\ function_calls' = Tail(function_calls)
            /\ Len(history') = Len(history) + 2
            /\ history'[Len(history) + 1] = CallTurn(Head(function_calls))
            /\ history'[Len(history) + 2].type = "function_call_output"
            /\ history'[Len(history) + 2].call_id = Head(function_calls).call_id]_vars

C25_Witness ==
    /\ o_pc = "ask"
    /\ n_req = 1
    /\ last_output = CallsAroundText
    /\ Len(history) = 12
    /\ history[3] = CallTurn(CallUnknown)
    /\ history[5] = CallTurn(CallBadJson)
    /\ history[11] = CallTurn(CallPinecone)
    /\ ai_text = << >>

HasBadTime(tasks) == \E i \in 1..Len(tasks) : tasks[i].time.fmt = "bad"

PolledBadTime ==
    /\ s_pc # "poll"
    /\ oldest_task # None
    /\ HasBadTime(poll_snap)

\* C26: when the list read at a poll holds a task whose time does not parse,
\* such a task is the one selected, ahead of every task with a parsable time,
\* it counts as due whatever the clock says, and the cycle ends in SLEEP with
\* that task sent and removed.
C26_UnparsableTimeHandledAtOnce ==
    PolledBadTime =>
        /\ oldest_task.time.fmt = "bad"
        /\ s_pc \notin {"check", "sleep", "dead"} => cycle_due
        /\ s_pc \in {"sleep", "dead"} =>
              /\ s_pc = "sleep"
              /\ cycle_due
              /\ Contains(sent, oldest_task)
              /\ BagIn(oldest_task, removed)

ExactDone == ExactCalled /\ x_args.tool = "exact" /\ x_args.time_str.fmt # "bad"

\* the offset string is "UTC", a sign and an hour from -11 to 14
SignedInRange(offset) ==
    /\ offset.prefix = "UTC"
    /\ offset.rem \in {"+int", "-int"}
    /\ -11 <= offset.h /\ offset.h <= 14

\* C27 as stated: add_task_exact_time fails and writes no task for every
\* offset that is not "UTC", a sign and an hour in range.
C27_OnlySignedFormAccepted ==
    ExactDone /\ ~SignedInRange(x_args.offset) =>
        IsErr(x_result) /\ tasks_file = << >>

\* C27 amended: add_task_exact_time fails and writes no task exactly when
\* the first three characters are not "UTC" in any letter case, or what
\* follows them is neither empty nor an integer literal, or the hour (0 when
\* nothing follows) is outside -11..14; a bare "UTC", an hour without a sign
\* and a lower-case prefix are accepted and a task is stored.
C27_LenientOffsetFormat ==
    ExactDone =>
        LET offset == x_args.offset
            rejected == \/ offset.prefix \notin {"UTC", "utc", "Utc"}
                        \/ offset.rem = "junk"
                        \/ offset.rem # "" /\ (offset.h < -11 \/ offset.h > 14)
        IN  IF rejected
            THEN IsErr(x_result) /\ tasks_file = << >>
            ELSE ~IsErr(x_result) /\ tasks_file = << x_result >>

C27_Witness ==
    /\ ExactDone
    /\ x_args.offset = Offset("utc", "+int", 3)
    /\ x_args.time_str = Naive(2)
    /\ tasks_file = << x_result >>
    /\ x_result.time = Aware(-1, 0)

\* C28: however often start_scheduler is called, at most one thread polls, so
\* no two threads are ever delivering or removing the same task.
C28_SingleScheduler ==
    /\ Len(t_pc) <= 1
    /\ \A i, j \in 1..Len(t_pc) :
          i # j /\ t_pc[i] \in {"deliver", "remove"} /\ t_pc[j] \in {"deliver", "remove"} =>
              t_task[i] # t_task[j]

\* C29: requests of different conversation keys do not interfere: a step of a
\* request changes no conversation record but the one of its own sender, the
\* history a request loads is the record of its own sender, and a request that
\* is the only one of its key leaves the record it would have left alone.
ConversationKey(msg) == IF msg.from = "" THEN "general" ELSE msg.from
ConversationKeys == { ConversationKey(m) : m \in WebhookMsgs }
RecordOf(dir, key) == IF key \in DOMAIN dir THEN dir[key] ELSE NoFile
HandledAlone(msg) ==
    LET file == RecordOf(StoredConvos, ConversationKey(msg))
        loaded == LoadHistory(file)
        trimmed == IF NeedsTrim(file) THEN TrimLoop(loaded, file.size) ELSE loaded
    IN  IF IsResetCommand(InputObj(msg)) THEN NoFile
        ELSE Written(trimmed \o << UserTurn(InputObj(msg)), AssistantTurn(<<"h", "i">>) >>)
OnlyOfItsKey(d) ==
    \A e \in Deliveries \ {d} : ConversationKey(w_msg[e]) # ConversationKey(w_msg[d])
OtherKeysUntouched ==
    \A k \in ConversationKeys \cup DOMAIN convo_files \cup DOMAIN convo_files' :
        k # ConversationKey(w_msg[w_last']) =>
            RecordOf(convo_files', k) = RecordOf(convo_files, k)
C29_NoCrossKeyInterference ==
    /\ [][OtherKeysUntouched]_vars
    /\ [](\A d \in Deliveries :
            OnlyOfItsKey(d) /\ w_pc[d] \in {"send", "received"} =>
                RecordOf(convo_files, ConversationKey(w_msg[d])) = HandledAlone(w_msg[d]))
C29_Witness ==
    /\ w_msg[1].from = "u" /\ w_msg[2].from = "v"
    /\ w_pc[1] = "received" /\ w_pc[2] = "received"
    /\ w_last = 1
    /\ w_sent = << [to |-> "v", id |-> "m1"], [to |-> "u", id |-> "m1"] >>
    /\ RecordOf(convo_files, "v") = HandledAlone(w_msg[2])
    /\ RecordOf(convo_files, "u") = HandledAlone(w_msg[1])

\* C30: the scheduler thread is not stopped by a race on tasks.json: whenever
\* it reaches the removal, the task it polled is in the list it reads again,
\* so the thread ends only when a send raises.
C30_RemoveFindsPolledTask ==
    /\ s_pc = "remove_read" => Contains(get_tasks, oldest_task)
    /\ s_pc = "dead" => send_outcome = "raised"

\* C31: a poll cycle delivers and removes at most one task, the one
\* get_oldest_task returned; once the cycle is over and no append is under
\* way, every other task that was due at the poll is still in the store; and the
\* tasks the store started with are sent in non-decreasing due-time order.
LeftAfterCycle(t) ==
    CopiesIn(t, BagOfSeq(poll_snap)) - (IF t = oldest_task THEN 1 ELSE 0)
C31_OneTaskPerCycle ==
    /\ Len(cycle_handled) <= 1
    /\ cycle_handled # << >> =>
          cycle_handled = << oldest_task >> /\ IsOldestOf(oldest_task, poll_snap)
    /\ (s_pc = "sleep" /\ cycle_due /\ a_pc = "idle") =>
          \A t \in Tasks(BagOfSeq(poll_snap)) :
              DueAtPoll(t) => CopiesIn(t, BagOfSeq(tasks_file)) >= LeftAfterCycle(t)
    /\ \A i, j \in DOMAIN sent :
          (i < j /\ Contains(init_file, sent[i]) /\ Contains(init_file, sent[j])) =>
              parse_time(sent[i]) <= parse_time(sent[j])

\* C32: in the history of every completion request and in every persisted
\* conversation record, each tool-call turn is immediately followed by the
\* tool-result turn of the same call_id, and every tool-result turn
\* immediately follows the tool-call turn of its call_id.
TypeOf(turn) == IF "type" \in DOMAIN turn THEN turn.type ELSE "none"
IsCallTurn(turn) == TypeOf(turn) = "function_call"
IsResultTurn(turn) == TypeOf(turn) = "function_call_output"
Paired(turns) ==
    \A i \in DOMAIN turns :
        /\ IsCallTurn(turns[i]) =>
              /\ i < Len(turns)
              /\ IsResultTurn(turns[i + 1])
              /\ turns[i + 1].call_id = turns[i].call_id
        /\ IsResultTurn(turns[i]) =>
              /\ i > 1
              /\ IsCallTurn(turns[i - 1])
              /\ turns[i - 1].call_id = turns[i].call_id
C32_CallResultPaired ==
    /\ Paired(sent_history)
    /\ o_pc = "ask" => Paired(history)
    /\ (convo_file.exists /\ convo_file.parses) => Paired(convo_file.turns)

\* a record persisted after a response of five tool calls was executed, and
\* the history of the request that followed them
C32_Witness ==
    /\ Completed
    /\ n_tools >= 5
    /\ n_req >= 2
    /\ \E i \in DOMAIN sent_history : IsCallTurn(sent_history[i])
    /\ \E i \in DOMAIN convo_file.turns : IsResultTurn(convo_file.turns[i])
    /\ Len(convo_file.turns) >= 12

\* C33: the reply returned for a message that is not a reset command is never
\* the empty string.
C33_ReplyNeverEmpty == Completed => reply # << >>

====
